---- MODULE Spec2Model ----
(***************************************************************************)
(* Model of app.py: the Streamlit script that stages uploaded meal photos  *)
(* in the shared folder "files", loads them back, and sends them with a    *)
(* fixed prompt to the generation service.                                 *)
(*                                                                         *)
(* Every browser session re-executes the script top to bottom on each      *)
(* widget event (a change of the uploader's files, a click on Analyze).    *)
(* One script run is modelled as a sequence of steps, one per file-system  *)
(* operation or external call, so runs of different sessions interleave on *)
(* the one folder they share.                                              *)
(***************************************************************************)
EXTENDS Integers, Sequences, FiniteSets, TLC

\* ---------------------------------------------------------------- bounds
MaxBatch == 2        \* longest upload batch
MaxData  == 2        \* distinct decodable image contents 1..MaxData
MaxRuns  == 4        \* script runs of a session on its own
MaxSharedBatch == 1  \* longest upload batch when sessions interleave
MaxSharedRuns == 3   \* script runs per session when sessions interleave

\* ------------------------------------------------------------- constants
MODEL_ID == "gemini-2.0-flash"
CAPTURE_FOLDER == "files"
NUTRITIONIST_PROMPT == "NUTRITIONIST_PROMPT"
IMAGE_MIME_TYPES == {"image/jpeg", "image/png", "image/webp", "image/heic", "image/heif"}

None == [py |-> "None"]        \* Python's None
Absent == [kind |-> "absent"]  \* no directory entry of that name
SubDir == [kind |-> "dir"]     \* the entry is a sub-directory
File(d) == [kind |-> "file", bytes |-> d]   \* a regular file and its bytes
NotImage == 0                  \* bytes PIL cannot decode

Sessions == {"s1", "s2"}

\* File names: a stem and an extension.  The uploader accepts jpg, png, jpeg.
UploadNames == {[stem |-> "a", ext |-> "jpg"], [stem |-> "b", ext |-> "png"]}
StaleName == [stem |-> "old", ext |-> ""]
Entries == UploadNames \cup {StaleName}

ImageData == 1..MaxData
Data == {NotImage} \cup ImageData

\* One uploaded file: file.name and file.getbuffer(); the photos are images
UploadedFile == [name : UploadNames, data : ImageData]

RECURSIVE SeqsUpTo(_, _)
SeqsUpTo(S, n) ==
    IF n = 0 THEN {<<>>}
    ELSE LET shorter == SeqsUpTo(S, n - 1)
         IN  shorter \cup {Append(q, x) : q \in {r \in shorter : Len(r) = n - 1}, x \in S}

\* The values st.file_uploader(..., accept_multiple_files=True) can return
Batches == SeqsUpTo(UploadedFile, MaxBatch)

VARIABLES
    exists,     \* os.path.exists(CAPTURE_FOLDER)
    files,      \* content of each entry of CAPTURE_FOLDER
    pc,         \* per session: position of its script run
    batch,      \* per session: file_uploader, the uploader's current files
    button,     \* per session: st.button("Analyze") of the current run
    listing,    \* per session: entries of os.listdir still to delete
    idx,        \* per session: position of the running for loop
    contents,   \* per session: contents, the list built at line 211
    request,    \* per session: the list handed to generate_content
    calls,      \* per session: generate_content calls of the current run
    result,     \* per session: how generate_content ended
    page,       \* per session: what the run has rendered
    runs,       \* per session: script runs started
    earlier     \* per session: names of the files of its earlier batches (history)

vars == <<exists, files, pc, batch, button, listing, idx, contents, request,
          calls, result, page, runs, earlier>>

fsvars == <<exists, files>>

\* ------------------------------------------------------ pure functions

\* mimetypes.guess_type: by extension only
detect_mime_type(name) ==
    CASE name.ext = "jpg"  -> "image/jpeg"
      [] name.ext = "jpeg" -> "image/jpeg"
      [] name.ext = "png"  -> "image/png"
      [] OTHER             -> None

\* read_file: a Part of the file's bytes and mime type; None (and an error
\* message) when read_bytes raises
read_file(fs, name) ==
    IF fs[name].kind = "file"
    THEN [data |-> fs[name].bytes, mime_type |-> detect_mime_type(name)]
    ELSE None

\* [NUTRITIONIST_PROMPT] + contents
build(instruction, parts) == <<instruction>> \o parts

\* the write of one uploaded file: open(file_path, "wb"); f.write(...)
write_file(fs, file) == [fs EXCEPT ![file.name] = File(file.data)]

\* a deletion that handles files and links but not sub-directories
unlink_files_only(fs, e) == IF fs[e] = SubDir THEN fs ELSE [fs EXCEPT ![e] = Absent]

\* os.unlink / shutil.rmtree of one listed entry
unlink(fs, e) == [fs EXCEPT ![e] = Absent]

\* Image.open succeeds on an existing file with decodable content
image_open_ok(fs, name) == fs[name].kind = "file" /\ fs[name].bytes \in ImageData

\* the file names of a batch
names(b) == {b[i].name : i \in 1..Len(b)}

\* st.error messages: the text and the file names it mentions
ReadError == [text |-> "Failed to read file. Please try again.", files |-> {}]
GenerateError == [text |-> "Failed to generate response. Please try again.", files |-> {}]

BlankPage == [report |-> "", errors |-> {}, took |-> FALSE, exception |-> FALSE,
              button |-> FALSE]

\* ----------------------------------------------------------------- Init
NoEntries == [e \in Entries |-> Absent]

\* What an earlier process may have left in the folder
Leftovers ==
    { NoEntries,
      [NoEntries EXCEPT ![StaleName] = SubDir],
      [e \in Entries |-> File(NotImage)] }

\* The folder may not exist, or exist with leftovers of an earlier process.
Init ==
    /\ exists \in BOOLEAN
    /\ files \in Leftovers
    /\ (~exists => files = NoEntries)
    /\ pc = [s \in Sessions |-> "new"]
    /\ batch = [s \in Sessions |-> <<>>]
    /\ button = [s \in Sessions |-> FALSE]
    /\ listing = [s \in Sessions |-> {}]
    /\ idx = [s \in Sessions |-> 1]
    /\ contents = [s \in Sessions |-> <<>>]
    /\ request = [s \in Sessions |-> <<>>]
    /\ calls = [s \in Sessions |-> 0]
    /\ result = [s \in Sessions |-> "none"]
    /\ page = [s \in Sessions |-> BlankPage]
    /\ runs = [s \in Sessions |-> 0]
    /\ earlier = [s \in Sessions |-> {}]

\* ------------------------------------------------- control flow of a run
\* Each operator below is a point of the script; it says where the run stands
\* next, skipping the loops that have nothing to iterate over.

\* lines 213 and 80: [NUTRITIONIST_PROMPT] + contents is handed to
\* client.models.generate_content, which is now in flight
enter_generate_response(s, cts) ==
    /\ request' = [request EXCEPT ![s] = build(NUTRITIONIST_PROMPT, cts)]
    /\ calls' = [calls EXCEPT ![s] = @ + 1]
    /\ pc' = [pc EXCEPT ![s] = "generate_content"]

\* line 209: the button is rendered; clicked, its handler starts at line 211
at_button(s) ==
    /\ page' = [page EXCEPT ![s].button = TRUE]
    /\ idx' = [idx EXCEPT ![s] = 1]
    /\ IF ~button[s]
       THEN /\ pc' = [pc EXCEPT ![s] = "idle"]
            /\ UNCHANGED <<request, calls>>
       ELSE IF batch[s] # <<>>
            THEN /\ pc' = [pc EXCEPT ![s] = "read_file"]
                 /\ UNCHANGED <<request, calls>>
            ELSE enter_generate_response(s, <<>>)

\* line 206: display_uploaded_images()
at_display(s) ==
    IF batch[s] # <<>>
    THEN /\ pc' = [pc EXCEPT ![s] = "display_uploaded_images"]
         /\ idx' = [idx EXCEPT ![s] = 1]
         /\ UNCHANGED <<page, request, calls>>
    ELSE at_button(s)

\* line 186: if file_uploader
at_stage(s) ==
    IF batch[s] # <<>>
    THEN /\ pc' = [pc EXCEPT ![s] = "stage"]
         /\ idx' = [idx EXCEPT ![s] = 1]
         /\ UNCHANGED <<page, request, calls>>
    ELSE at_display(s)

\* an exception nothing catches ends the run; Streamlit shows the traceback
uncaught(s) ==
    /\ pc' = [pc EXCEPT ![s] = "idle"]
    /\ page' = [page EXCEPT ![s].exception = TRUE]
    /\ idx' = [idx EXCEPT ![s] = 1]
    /\ UNCHANGED <<request, calls>>

\* -------------------------------------------------------------- actions

\* A widget event re-executes the script from line 1 with the widgets' values,
\* up to clear_directory's existence test and os.listdir (lines 128-129).
rerun(s, b, clicked, maxruns) ==
    /\ runs[s] < maxruns
    /\ runs' = [runs EXCEPT ![s] = @ + 1]
    /\ batch' = [batch EXCEPT ![s] = b]
    /\ earlier' = [earlier EXCEPT ![s] =
                     IF b = batch[s] THEN @ ELSE @ \cup names(batch[s])]
    /\ button' = [button EXCEPT ![s] = clicked]
    /\ idx' = [idx EXCEPT ![s] = 1]
    /\ contents' = [contents EXCEPT ![s] = <<>>]
    /\ request' = [request EXCEPT ![s] = <<>>]
    /\ calls' = [calls EXCEPT ![s] = 0]
    /\ result' = [result EXCEPT ![s] = "none"]
    /\ page' = [page EXCEPT ![s] = BlankPage]
    /\ listing' = [listing EXCEPT ![s] =
                     IF exists THEN {e \in Entries : files[e] # Absent} ELSE {}]
    /\ pc' = [pc EXCEPT ![s] =
                IF exists /\ files # NoEntries THEN "clear_directory"
                ELSE "create_directory"]
    /\ UNCHANGED fsvars

\* the browser opens the page: first run, nothing uploaded, nothing clicked
page_load(s, maxruns) ==
    /\ pc[s] = "new"
    /\ rerun(s, <<>>, FALSE, maxruns)

\* the user changes the uploader's files
file_uploader(s, maxruns, maxbatch) ==
    /\ pc[s] = "idle"
    /\ \E b \in {q \in Batches : Len(q) <= maxbatch} : rerun(s, b, FALSE, maxruns)

\* the user clicks the Analyze button (it exists once line 209 has run)
Analyze(s, maxruns) ==
    /\ pc[s] = "idle"
    /\ page[s].button
    /\ rerun(s, batch[s], TRUE, maxruns)

\* a deletion loop that logs the entry and leaves it in place
clear_directory_keep(s) ==
    /\ pc[s] = "clear_directory"
    /\ listing' = [listing EXCEPT ![s] = {}]
    /\ pc' = [pc EXCEPT ![s] = "create_directory"]
    /\ UNCHANGED <<exists, files, batch, button, idx, contents, request, calls,
                   result, page, runs, earlier>>

\* clear_directory, lines 129-137: one iteration of the deletion loop
clear_directory(s) ==
    /\ pc[s] = "clear_directory"
    /\ \E e \in listing[s] :
        /\ files' = unlink(files, e)
        /\ listing' = [listing EXCEPT ![s] = @ \ {e}]
        /\ pc' = [pc EXCEPT ![s] =
                    IF listing[s] = {e} THEN "create_directory" ELSE @]
    /\ UNCHANGED <<exists, batch, button, idx, contents, request, calls, result,
                   page, runs, earlier>>

\* create_directory, lines 146-147
create_directory(s) ==
    /\ pc[s] = "create_directory"
    /\ exists' = TRUE
    /\ at_stage(s)
    /\ UNCHANGED <<files, batch, button, listing, contents, result, runs, earlier>>

\* lines 188-192: one iteration of the staging loop
stage(s) ==
    /\ pc[s] = "stage"
    /\ IF exists /\ files[batch[s][idx[s]].name] # SubDir
       THEN /\ files' = write_file(files, batch[s][idx[s]])
            /\ IF idx[s] < Len(batch[s])
               THEN /\ idx' = [idx EXCEPT ![s] = @ + 1]
                    /\ UNCHANGED <<pc, page, request, calls>>
               ELSE at_display(s)
       ELSE /\ uncaught(s)
            /\ UNCHANGED files
    /\ UNCHANGED <<exists, batch, button, listing, contents, result, runs, earlier>>

\* lines 201-204: one iteration of the thumbnail loop
display_uploaded_images(s) ==
    /\ pc[s] = "display_uploaded_images"
    /\ IF image_open_ok(files, batch[s][idx[s]].name)
       THEN IF idx[s] < Len(batch[s])
            THEN /\ idx' = [idx EXCEPT ![s] = @ + 1]
                 /\ UNCHANGED <<pc, page, request, calls>>
            ELSE at_button(s)
       ELSE uncaught(s)
    /\ UNCHANGED <<exists, files, batch, button, listing, contents, result, runs, earlier>>

\* a loop that puts each loaded part in front of the ones before it
load_prepend(s) ==
    /\ pc[s] = "read_file"
    /\ LET part == read_file(files, batch[s][idx[s]].name)
           cts == <<part>> \o contents[s]
       IN  /\ contents' = [contents EXCEPT ![s] = cts]
           /\ page' = IF part = None
                      THEN [page EXCEPT ![s].errors = @ \cup {ReadError}]
                      ELSE page
           /\ IF idx[s] < Len(batch[s])
              THEN /\ idx' = [idx EXCEPT ![s] = @ + 1]
                   /\ UNCHANGED <<pc, request, calls>>
              ELSE /\ enter_generate_response(s, cts)
                   /\ idx' = [idx EXCEPT ![s] = 1]
    /\ UNCHANGED <<exists, files, batch, button, listing, result, runs, earlier>>

\* line 211: one element of the list comprehension
load(s) ==
    /\ pc[s] = "read_file"
    /\ LET part == read_file(files, batch[s][idx[s]].name)
           cts == Append(contents[s], part)
       IN  /\ contents' = [contents EXCEPT ![s] = cts]
           /\ page' = IF part = None
                      THEN [page EXCEPT ![s].errors = @ \cup {ReadError}]
                      ELSE page
           /\ IF idx[s] < Len(batch[s])
              THEN /\ idx' = [idx EXCEPT ![s] = @ + 1]
                   /\ UNCHANGED <<pc, request, calls>>
              ELSE /\ enter_generate_response(s, cts)
                   /\ idx' = [idx EXCEPT ![s] = 1]
    /\ UNCHANGED <<exists, files, batch, button, listing, result, runs, earlier>>

\* lines 214-217 after generate_response has returned `output`
render(s, kind) ==
    /\ result' = [result EXCEPT ![s] = kind]
    /\ page' = [page EXCEPT
                  ![s].report = CASE kind = "text"  -> "report"
                                  [] kind = "empty" -> "None"
                                  [] OTHER          -> @,
                  ![s].errors = IF kind = "raise" THEN @ \cup {GenerateError} ELSE @,
                  ![s].took = TRUE]
    /\ pc' = [pc EXCEPT ![s] = "idle"]

\* line 81: generate_content returns a response, with text or without any
generate_response_return(s) ==
    /\ pc[s] = "generate_content"
    /\ \E kind \in {"text", "empty"} : render(s, kind)
    /\ UNCHANGED <<exists, files, batch, button, listing, idx, contents, request,
                   calls, runs, earlier>>

\* an except branch that calls generate_content once more
generate_response_retry(s) ==
    /\ pc[s] = "generate_content"
    /\ IF calls[s] < 2
       THEN /\ calls' = [calls EXCEPT ![s] = @ + 1]
            /\ UNCHANGED <<pc, result, page>>
       ELSE /\ render(s, "raise")
            /\ UNCHANGED calls
    /\ UNCHANGED <<exists, files, batch, button, listing, idx, contents, request,
                   runs, earlier>>

\* lines 82-85: generate_content raises; the error is logged and shown
generate_response_except(s) ==
    /\ pc[s] = "generate_content"
    /\ render(s, "raise")
    /\ UNCHANGED <<exists, files, batch, button, listing, idx, contents, request,
                   calls, runs, earlier>>

\* one step of the script run of session s; the two arguments bound the
\* number of its runs and the length of its batches
step(s, maxruns, maxbatch) ==
    \/ page_load(s, maxruns)
    \/ file_uploader(s, maxruns, maxbatch)
    \/ Analyze(s, maxruns)
    \/ clear_directory(s)
    \/ create_directory(s)
    \/ stage(s)
    \/ display_uploaded_images(s)
    \/ load(s)
    \/ generate_response_return(s)
    \/ generate_response_except(s)

\* sessions of several browsers, interleaved on the one CAPTURE_FOLDER
Next == \E s \in Sessions : step(s, MaxSharedRuns, MaxSharedBatch)

Spec == Init /\ [][Next]_vars

\* one browser session alone
NextOne == step("s1", MaxRuns, MaxBatch)

SpecOne == Init /\ [][NextOne]_vars

\* ------------------------------------------------------------ properties

\* the media part an uploaded file stands for
MediaPart(file) == [data |-> file.data, mime_type |-> detect_mime_type(file.name)]

UniqueNames(b) == \A i, j \in 1..Len(b) : b[i].name = b[j].name => i = j

\* the bytes of the last file of batch b that is named e
LastData(b, e) ==
    LET last == CHOOSE i \in 1..Len(b) :
                   /\ b[i].name = e
                   /\ \A j \in 1..Len(b) : b[j].name = e => j <= i
    IN  b[last].data

InFlight(s) == pc[s] = "generate_content"

\* the Analyze handler of session s has run to its last line
Analyzed(s) == pc[s] = "idle" /\ button[s] /\ page[s].took

\* C1: for a batch of N >= 1 files the request handed to generate_content is
\* the prompt followed by the media parts of the N uploaded files, in upload
\* order, none missing and none twice.
C1_RequestIsPromptThenParts ==
    \A s \in Sessions :
        (InFlight(s) /\ Len(batch[s]) >= 1) =>
            request[s] = <<NUTRITIONIST_PROMPT>>
                         \o [i \in 1..Len(batch[s]) |-> MediaPart(batch[s][i])]

\* C2: with an empty batch generate_content is never called.
C2_NoCallOnEmptyBatch ==
    \A s \in Sessions : batch[s] = <<>> => calls[s] = 0

\* C3: whenever generate_content fails on a request with images (it raises, or
\* its response carries no text) the finished analysis shows the failure
\* message, no report, and the elapsed time, and no exception has escaped.
C3_FailureIsReported ==
    \A s \in Sessions :
        (Analyzed(s) /\ batch[s] # <<>> /\ result[s] \in {"raise", "empty"}) =>
            /\ GenerateError \in page[s].errors
            /\ page[s].report = ""
            /\ page[s].took
            /\ ~page[s].exception

\* C4: when the load of a file failed, generate_content is not called and no
\* report is shown, unless a message naming the skipped file is shown.
C4_NoSilentSkip ==
    \A s \in Sessions :
        \A i \in 1..Len(contents[s]) :
            (contents[s][i] = None /\ (InFlight(s) \/ page[s].report = "report")) =>
                \E m \in page[s].errors : batch[s][i].name \in m.files

\* C5: one run of the Analyze handler calls generate_content exactly once,
\* with one request that holds the whole batch, and a failure of the call is
\* not followed by another call; a run without a click makes no call.
C5_OneCallPerAnalyze ==
    \A s \in Sessions :
        /\ calls[s] <= 1
        /\ ~button[s] => calls[s] = 0
        /\ (InFlight(s) \/ Analyzed(s)) =>
              /\ calls[s] = 1
              /\ Len(request[s]) = Len(batch[s]) + 1

C5_Witness ==
    \E s \in Sessions :
        /\ Analyzed(s)
        /\ result[s] = "raise"
        /\ Len(batch[s]) = 2
        /\ calls[s] = 1

\* C6: once a run of a session on its own has staged the uploader's files, the
\* folder holds an entry for every file name of the current batch, with bytes
\* uploaded in that batch, and no other entry: nothing of an earlier batch.
C6_StoreHoldsLatestBatch ==
    \A s \in Sessions :
        ( /\ pc[s] \in {"display_uploaded_images", "read_file", "generate_content", "idle"}
          /\ ~page[s].exception ) =>
            /\ exists
            /\ \A e \in Entries :
                  files[e] = IF e \in names(batch[s])
                             THEN File(LastData(batch[s], e))
                             ELSE Absent

C6_Witness ==
    \E s \in Sessions :
        /\ InFlight(s)
        /\ Len(batch[s]) = 1
        /\ \E e \in earlier[s] : e \notin names(batch[s]) /\ files[e] = Absent

\* C7: for a batch with unique file names, the i-th loaded part carries the
\* bytes (and the type) of the i-th uploaded file.
C7_StageLoadRoundTrip ==
    \A s \in Sessions :
        UniqueNames(batch[s]) =>
            \A i \in 1..Len(contents[s]) :
                contents[s][i] = MediaPart(batch[s][i])

C7_Witness ==
    \E s \in Sessions :
        /\ InFlight(s)
        /\ Len(batch[s]) = 2
        /\ UniqueNames(batch[s])
        /\ Len(contents[s]) = 2
        /\ batch[s][1].data # batch[s][2].data

\* C8: every file an analysis has loaded was present and is a file of the
\* batch of that analysis.
C8_LoadsOwnBatch ==
    \A s \in Sessions :
        \A i \in 1..Len(contents[s]) :
            /\ contents[s][i] # None
            /\ \E j \in 1..Len(batch[s]) : contents[s][i] = MediaPart(batch[s][j])

\* C9: at most one generate_content call on uploaded images is in flight at
\* any time.
C9_SingleFlight ==
    Cardinality({s \in Sessions : InFlight(s) /\ batch[s] # <<>>}) <= 1

\* C10: when clear_directory and create_directory have run, the folder exists
\* and is empty, whether or not it existed before and also when nothing was
\* staged since the reset before.
JustReset(s) ==
    /\ runs[s] > 0
    /\ \/ pc[s] = "stage" /\ idx[s] = 1
       \/ batch[s] = <<>> /\ pc[s] \in {"idle", "generate_content"}

====
